---------------------------- MODULE Spec2Model ----------------------------
(***************************************************************************)
(* A model of src/interator.py: the wheel-factorised prime generator, the  *)
(* trial-division and Miller-Rabin tests built on it, the k-term           *)
(* Fibonacci-like streams with their matrix-power index, and the           *)
(* membership predicates that scan those streams.                          *)
(*                                                                         *)
(* Python generators are modelled as records holding the generator's local *)
(* state; one pull (next()) is an operator from a generator state to the   *)
(* state after the next yield plus the value yielded.                      *)
(***************************************************************************)
EXTENDS Integers, Sequences, FiniteSets, TLC

VARIABLES
    gen, out,                                   \* a consumer of prime_stream()
    primes, next_prime, cnt, cout,              \* composite_stream()
    tn, prime_ret, comp_ret,                    \* is_prime(n), is_composite(n)
    mr_pc, mr_n, mr_k, mr_r, mr_d, mr_i, mr_ret, \* miller_rabin(n, k)
    seedv, fgen, fpos, fval, ngen, npos, nval,  \* fibonacci / negafibonacci streams
    fn, mn, mP, mQ, mstart, mpc, mgen, mval, mret  \* is_fibonacci / is_lucas

primeVars  == <<gen, out>>
compVars   == <<primes, next_prime, cnt, cout>>
trialVars  == <<tn, prime_ret, comp_ret>>
mrVars     == <<mr_pc, mr_n, mr_k, mr_r, mr_d, mr_i, mr_ret>>
fibVars    == <<seedv, fgen, fpos, fval, ngen, npos, nval>>
memberVars == <<fn, mn, mP, mQ, mstart, mpc, mgen, mval, mret>>
vars == <<primeVars, compVars, trialVars, mrVars, fibVars, memberVars>>

(***************************************************************************)
(* Bounds of the model.                                                    *)
(***************************************************************************)
\* prime_stream is followed up to this candidate (past one wheel period of
\* 2310 and past 2873 = 13*13*17, the first key two primes compete for).
MaxCandidate == 3000
\* composite_stream is followed up to this value of its counter.
MaxCount == 180
\* is_prime and is_composite are called with n from -3 up to this.
MaxTestN == 2000
\* miller_rabin is called with n from -2 up to this, and k from 0 up to MaxRounds.
MaxMillerN == 40
MaxRounds == 3
\* The streams are seeded with every tuple of 1..MaxSeedLen values from
\* SeedValues and pulled up to position MaxIndex (forward) and MaxNegIndex
\* (backward).
MaxSeedLen == 3
MaxIndex == 12
MaxNegIndex == 8
\* is_fibonacci and is_lucas are called with n from -2 up to this; membership
\* in a stream is looked for among its first MaxScan + 1 values.
MaxMemberN == 12
MaxScan == 14
\* The index standing for 1475 in is_fibonacci's test n <= nth_fibonacci(1475).
FibIndexInRange == 40

(***************************************************************************)
(* Arithmetic helpers.                                                     *)
(***************************************************************************)
Abs(x) == IF x < 0 THEN -x ELSE x
Range(s) == {s[i] : i \in 1..Len(s)}

RECURSIVE Gcd(_, _)
Gcd(a, b) == IF b = 0 THEN a ELSE Gcd(b, a % b)

\* The prime numbers and the composite numbers, by definition, in the range the
\* model reaches: the yardstick the generator and the tests are held against.
\* (S \cup {} is the set S enumerated once, and f \o <<>> is the sequence f held
\* as a tuple of evaluated entries.)
NumberRange == MaxCandidate + 100
PrimeNumbers ==
    {p \in 2..NumberRange : \A d \in 2..(p - 1) : d * d > p \/ p % d # 0} \cup {}
CompositeNumbers == (2..NumberRange) \ PrimeNumbers

(***************************************************************************)
(* prime_stream                                                            *)
(***************************************************************************)
start == 13
c == 2 * 3 * 5 * 7 * 11
WheelPrimes == <<2, 3, 5, 7, 11>>
mod == {i \in 0..(c - 1) : Gcd(i, c) = 1} \cup {}
SkipLen == Cardinality({x \in start..(start + c - 1) : (x - start) % 2 = 0})
skip == [i \in 1..SkipLen |-> IF (start + 2 * (i - 1)) % c \in mod THEN 1 ELSE 0] \o <<>>

\* it.compress(it.count(start, 2), it.cycle(skip)): the index, in the count, of
\* the first element at or after index pos that the cycled mask lets through.
RECURSIVE NextSelected(_)
NextSelected(pos) ==
    IF skip[(pos % SkipLen) + 1] = 1 THEN pos ELSE NextSelected(pos + 1)

\* The generator before its first pull.  pc counts the wheel primes yielded,
\* pos the elements of the count consumed, n is the loop variable (0 before the
\* loop), sieve the dict.
GenInit == [pc |-> 0, pos |-> 0, n |-> 0, sieve |-> <<>>]

RECURSIVE NextMultiple(_, _, _)
RECURSIVE NextMultipleNoSieveTest(_, _, _)
RECURSIVE NextMultipleNoWheelTest(_, _, _)

\* Faulty variants of NextMultiple: without the test "m in sieve", and without
\* the test "m % c not in mod".
NextMultipleNoSieveTest(sieve, m, prime) ==
    IF m % c \notin mod
    THEN NextMultipleNoSieveTest(sieve, m + 2 * prime, prime)
    ELSE m

NextMultipleNoWheelTest(sieve, m, prime) ==
    IF m \in DOMAIN sieve
    THEN NextMultipleNoWheelTest(sieve, m + 2 * prime, prime)
    ELSE m

\* m = n + 2*prime; while m in sieve or m % c not in mod: m += 2*prime
NextMultiple(sieve, m, prime) ==
    IF m \in DOMAIN sieve \/ m % c \notin mod
    THEN NextMultiple(sieve, m + 2 * prime, prime)
    ELSE m

\* A faulty variant of DictSet: the entry is not stored.
DictSetLost(sieve, k, v) == sieve

\* sieve[k] = v (an assignment: an existing entry for k is overwritten)
DictSet(sieve, k, v) == (k :> v) @@ sieve
\* sieve.pop(k)
DictDel(sieve, k) == [x \in (DOMAIN sieve) \ {k} |-> sieve[x]]

\* The candidate the for loop examines next.
NextCandidate(g) == start + 2 * NextSelected(g.pos)

\* One iteration of the for loop of prime_stream: the generator after it, and
\* what it yielded (<<>> for a composite candidate).
LoopStep(g) ==
    LET pos == NextSelected(g.pos)
        n == start + 2 * pos
    IN  IF n \notin DOMAIN g.sieve
        THEN [gen |-> [g EXCEPT !.pos = pos + 1, !.n = n,
                                !.sieve = DictSet(g.sieve, n * n, n)],
              yield |-> <<n>>]
        ELSE LET prime == g.sieve[n]
                 popped == DictDel(g.sieve, n)
                 m == NextMultiple(popped, n + 2 * prime, prime)
             IN  [gen |-> [g EXCEPT !.pos = pos + 1, !.n = n,
                                    !.sieve = DictSet(popped, m, prime)],
                  yield |-> <<>>]

\* next(prime_stream()): run the generator to its next yield.
RECURSIVE PrimeNext(_)
PrimeNext(g) ==
    IF g.pc < Len(WheelPrimes)
    THEN [gen |-> [g EXCEPT !.pc = g.pc + 1], value |-> WheelPrimes[g.pc + 1]]
    ELSE LET s == LoopStep(g)
         IN  IF s.yield # <<>>
             THEN [gen |-> s.gen, value |-> s.yield[1]]
             ELSE PrimeNext(s.gen)

InitPrime ==
    /\ gen = GenInit
    /\ out = <<>>
    /\ primes = GenInit /\ next_prime = 0 /\ cnt = 0 /\ cout = <<>>
    /\ tn = 0 /\ prime_ret = "none" /\ comp_ret = "none"
    /\ mr_pc = "idle" /\ mr_n = 0 /\ mr_k = 0 /\ mr_r = 0 /\ mr_d = 0 /\ mr_i = 0 /\ mr_ret = "none"
    /\ seedv = <<>> /\ fgen = <<>> /\ fpos = 0 /\ fval = 0 /\ ngen = <<>> /\ npos = 0 /\ nval = 0
    /\ fn = "none" /\ mn = 0 /\ mP = 0 /\ mQ = 0 /\ mstart = <<>> /\ mpc = "idle" /\ mgen = <<>> /\ mval = 0 /\ mret = "none"

\* yield 2; yield 3; yield 5; yield 7; yield 11
YieldWheelPrime ==
    /\ gen.pc < Len(WheelPrimes)
    /\ gen' = [gen EXCEPT !.pc = gen.pc + 1]
    /\ out' = Append(out, WheelPrimes[gen.pc + 1])
    /\ UNCHANGED <<compVars, trialVars, mrVars, fibVars, memberVars>>

\* One candidate step of the sieve loop.
CandidateStep ==
    /\ gen.pc = Len(WheelPrimes)
    /\ NextCandidate(gen) <= MaxCandidate
    /\ LET s == LoopStep(gen)
       IN  /\ gen' = s.gen
           /\ out' = out \o s.yield
    /\ UNCHANGED <<compVars, trialVars, mrVars, fibVars, memberVars>>

(***************************************************************************)
(* composite_stream                                                        *)
(***************************************************************************)
\* primes = prime_stream(); next_prime = next(primes); the counter has not
\* started (cnt = 0).
InitComposite ==
    /\ primes = PrimeNext(GenInit).gen
    /\ next_prime = PrimeNext(GenInit).value
    /\ cnt = 0
    /\ cout = <<>>
    /\ gen = GenInit /\ out = <<>>
    /\ tn = 0 /\ prime_ret = "none" /\ comp_ret = "none"
    /\ mr_pc = "idle" /\ mr_n = 0 /\ mr_k = 0 /\ mr_r = 0 /\ mr_d = 0 /\ mr_i = 0 /\ mr_ret = "none"
    /\ seedv = <<>> /\ fgen = <<>> /\ fpos = 0 /\ fval = 0 /\ ngen = <<>> /\ npos = 0 /\ nval = 0
    /\ fn = "none" /\ mn = 0 /\ mP = 0 /\ mQ = 0 /\ mstart = <<>> /\ mpc = "idle" /\ mgen = <<>> /\ mval = 0 /\ mret = "none"

\* One iteration of "for n in it.count(1)".
CompositeStep ==
    /\ cnt < MaxCount
    /\ cnt' = cnt + 1
    /\ IF cnt' # next_prime
       THEN /\ cout' = Append(cout, cnt')
            /\ UNCHANGED <<primes, next_prime>>
       ELSE /\ primes' = PrimeNext(primes).gen
            /\ next_prime' = PrimeNext(primes).value
            /\ UNCHANGED cout
    /\ UNCHANGED <<primeVars, trialVars, mrVars, fibVars, memberVars>>

(***************************************************************************)
(* is_prime, is_composite                                                  *)
(***************************************************************************)
\* What a predicate returned, as a string ("none": it has not returned).
Ret(b) == IF b THEN "true" ELSE "false"

\* A faulty variant of StopBelow: the loop stops only past n itself.
StopAtN(n, prime) == n < prime

\* stop = n ** 0.5 ... if stop < prime.  For the integers of the model the
\* float square root is below the integer prime exactly when n < prime * prime.
StopBelow(n, prime) == n < prime * prime

\* for prime in prime_stream(): if n % prime == 0: return False
\*                              if stop < prime: break
\* return True
RECURSIVE is_prime_loop(_, _)
is_prime_loop(n, g) ==
    LET p == PrimeNext(g)
    IN  IF n % p.value = 0 THEN FALSE
        ELSE IF StopBelow(n, p.value) THEN TRUE
        ELSE is_prime_loop(n, p.gen)

is_prime(n) ==
    IF n = 2 THEN TRUE
    ELSE IF n < 2 \/ n % 1 # 0 THEN FALSE
    ELSE is_prime_loop(n, GenInit)

RECURSIVE is_composite_loop(_, _)
is_composite_loop(n, g) ==
    LET p == PrimeNext(g)
    IN  IF n % p.value = 0 THEN TRUE
        ELSE IF StopBelow(n, p.value) THEN FALSE
        ELSE is_composite_loop(n, p.gen)

\* A faulty variant of is_composite: without the special case n == 2.
is_composite_without_2(n) ==
    IF n = 1 THEN TRUE
    ELSE IF n < 1 \/ n % 1 # 0 THEN FALSE
    ELSE is_composite_loop(n, GenInit)

is_composite(n) ==
    IF n = 1 THEN TRUE
    ELSE IF n < 1 \/ n % 1 # 0 \/ n = 2 THEN FALSE
    ELSE is_composite_loop(n, GenInit)

TestInputs == (0 - 3)..MaxTestN

InitTrial ==
    /\ tn \in TestInputs
    /\ prime_ret = "none"
    /\ comp_ret = "none"
    /\ gen = GenInit /\ out = <<>>
    /\ primes = GenInit /\ next_prime = 0 /\ cnt = 0 /\ cout = <<>>
    /\ mr_pc = "idle" /\ mr_n = 0 /\ mr_k = 0 /\ mr_r = 0 /\ mr_d = 0 /\ mr_i = 0 /\ mr_ret = "none"
    /\ seedv = <<>> /\ fgen = <<>> /\ fpos = 0 /\ fval = 0 /\ ngen = <<>> /\ npos = 0 /\ nval = 0
    /\ fn = "none" /\ mn = 0 /\ mP = 0 /\ mQ = 0 /\ mstart = <<>> /\ mpc = "idle" /\ mgen = <<>> /\ mval = 0 /\ mret = "none"

CallIsPrime ==
    /\ tn \in TestInputs
    /\ prime_ret = "none"
    /\ prime_ret' = Ret(is_prime(tn))
    /\ UNCHANGED <<tn, comp_ret>>
    /\ UNCHANGED <<primeVars, compVars, mrVars, fibVars, memberVars>>

CallIsComposite ==
    /\ tn \in TestInputs
    /\ comp_ret = "none"
    /\ comp_ret' = Ret(is_composite(tn))
    /\ UNCHANGED <<tn, prime_ret>>
    /\ UNCHANGED <<primeVars, compVars, mrVars, fibVars, memberVars>>

(***************************************************************************)
(* miller_rabin                                                            *)
(***************************************************************************)
\* pow(b, e, m)
RECURSIVE ModPow(_, _, _)
ModPow(b, e, m) ==
    IF e = 0 THEN 1 % m
    ELSE IF e % 2 = 1 THEN (b * ModPow(b, e - 1, m)) % m
    ELSE LET h == ModPow(b, e \div 2, m) IN (h * h) % m

\* r = 0; d = n - 1; while d % 2 == 0: r += 1; d //= 2
RECURSIVE Decompose(_, _)
Decompose(r, d) ==
    IF d % 2 = 0 THEN Decompose(r + 1, d \div 2) ELSE [r |-> r, d |-> d]

\* for _ in range(i): x = pow(x, 2, n); if x == n - 1: cont = True; break
RECURSIVE SquareLoop(_, _, _)
SquareLoop(x, i, n) ==
    IF i <= 0 THEN FALSE
    ELSE LET y == ModPow(x, 2, n)
         IN  IF y = n - 1 THEN TRUE ELSE SquareLoop(y, i - 1, n)

\* A faulty variant of RoundPasses: without the test x == n - 1 before the loop.
RoundPassesOnlyOne(a, r, d, n) ==
    LET x == ModPow(a, d, n)
    IN  x = 1 \/ SquareLoop(x, r - 1, n)

\* One round with base a: whether it ends in "continue" (and not in
\* "return False").
RoundPasses(a, r, d, n) ==
    LET x == ModPow(a, d, n)
    IN  x = 1 \/ x = n - 1 \/ SquareLoop(x, r - 1, n)

InitMR ==
    /\ mr_pc = "call"
    /\ mr_n \in (0 - 2)..MaxMillerN
    /\ mr_k \in 0..MaxRounds
    /\ mr_r = 0 /\ mr_d = 0 /\ mr_i = 0
    /\ mr_ret = "none"
    /\ gen = GenInit /\ out = <<>>
    /\ primes = GenInit /\ next_prime = 0 /\ cnt = 0 /\ cout = <<>>
    /\ tn = 0 /\ prime_ret = "none" /\ comp_ret = "none"
    /\ seedv = <<>> /\ fgen = <<>> /\ fpos = 0 /\ fval = 0 /\ ngen = <<>> /\ npos = 0 /\ nval = 0
    /\ fn = "none" /\ mn = 0 /\ mP = 0 /\ mQ = 0 /\ mstart = <<>> /\ mpc = "idle" /\ mgen = <<>> /\ mval = 0 /\ mret = "none"

\* The entry of miller_rabin: the early returns and the decomposition of n - 1.
MRCall ==
    /\ mr_pc = "call"
    /\ IF mr_n < 2 \/ mr_n % 1 # 0
       THEN mr_ret' = "false" /\ mr_pc' = "done" /\ UNCHANGED <<mr_r, mr_d>>
       ELSE IF mr_n \in {2, 3}
       THEN mr_ret' = "true" /\ mr_pc' = "done" /\ UNCHANGED <<mr_r, mr_d>>
       ELSE /\ mr_r' = Decompose(0, mr_n - 1).r
            /\ mr_d' = Decompose(0, mr_n - 1).d
            /\ mr_pc' = "loop"
            /\ UNCHANGED mr_ret
    /\ UNCHANGED <<mr_n, mr_k, mr_i>>
    /\ UNCHANGED <<primeVars, compVars, trialVars, fibVars, memberVars>>

\* One round of "for _ in range(k)" with a = random.randint(2, n - 2).
MRRound ==
    /\ mr_pc = "loop"
    /\ mr_i < mr_k
    /\ \E a \in 2..(mr_n - 2) :
          IF RoundPasses(a, mr_r, mr_d, mr_n)
          THEN mr_i' = mr_i + 1 /\ UNCHANGED <<mr_pc, mr_ret>>
          ELSE mr_ret' = "false" /\ mr_pc' = "done" /\ UNCHANGED mr_i
    /\ UNCHANGED <<mr_n, mr_k, mr_r, mr_d>>
    /\ UNCHANGED <<primeVars, compVars, trialVars, fibVars, memberVars>>

\* The loop is exhausted: return True.
MRReturn ==
    /\ mr_pc = "loop"
    /\ mr_i = mr_k
    /\ mr_ret' = "true" /\ mr_pc' = "done"
    /\ UNCHANGED <<mr_n, mr_k, mr_r, mr_d, mr_i>>
    /\ UNCHANGED <<primeVars, compVars, trialVars, fibVars, memberVars>>

(***************************************************************************)
(* fibonacci_stream, negafibonacci_stream                                  *)
(*                                                                         *)
(* The parameter the source calls "start" is called seed here (start is    *)
(* prime_stream's first candidate).  A stream's state is i, the number of  *)
(* leading yields done, and last, the deque (built from the seed).         *)
(***************************************************************************)
RECURSIVE Sum(_)
Sum(s) == IF s = <<>> THEN 0 ELSE Head(s) + Sum(Tail(s))

StreamInit(seed) == [i |-> 0, last |-> seed]

\* next(fibonacci_stream(seed)): the seed values in order, then
\* next_n = sum(last); yield next_n; last.append(next_n) on a deque of maxlen k.
FibNext(g, seed) ==
    IF g.i < Len(seed)
    THEN [gen |-> [g EXCEPT !.i = g.i + 1], value |-> seed[g.i + 1]]
    ELSE LET next_n == Sum(g.last)
         IN  [gen |-> [g EXCEPT !.last = Append(Tail(g.last), next_n)],
              value |-> next_n]

\* A faulty variant of NegaTerm: last[-1] is counted once.
NegaTermSingle(last) == last[Len(last)] - Sum(last)

\* next_n = last[-1] + last[-1] - sum(last)
NegaTerm(last) == last[Len(last)] + last[Len(last)] - Sum(last)

\* next(negafibonacci_stream(seed)): seed[0], then next_n as above;
\* last.appendleft(next_n) on a deque of maxlen k.
NegaNext(g, seed) ==
    IF g.i = 0
    THEN [gen |-> [g EXCEPT !.i = 1], value |-> seed[1]]
    ELSE LET next_n == NegaTerm(g.last)
         IN  [gen |-> [g EXCEPT !.last = <<next_n>> \o SubSeq(g.last, 1, Len(g.last) - 1)],
              value |-> next_n]

\* for i, f in enumerate(negafibonacci_stream(start=start)): if i == idx: return f
RECURSIVE NegaAt(_, _, _)
NegaAt(g, seed, idx) ==
    LET r == NegaNext(g, seed)
    IN  IF idx = 0 THEN r.value ELSE NegaAt(r.gen, seed, idx - 1)

(***************************************************************************)
(* nth_fibonacci                                                           *)
(***************************************************************************)
\* Integer matrices are sequences of rows.
\* (The CHOOSE of MatMul binds both factors to their values, so that each is
\* evaluated once.)
Dot(u, v) == Sum([i \in 1..Len(u) |-> u[i] * v[i]] \o <<>>)
Column(m, j) == [i \in 1..Len(m) |-> m[i][j]] \o <<>>
MatProduct(x, y) ==
    [i \in 1..Len(x) |->
        [j \in 1..Len(y[1]) |-> Dot(x[i], Column(y, j))] \o <<>>] \o <<>>
MatMul(x, y) == CHOOSE z \in {MatProduct(xv, yv) : xv \in {x}, yv \in {y}} : TRUE

\* np.linalg.matrix_power(a, e) for e >= 1, by squaring.
RECURSIVE MatPow(_, _)
MatPow(a, e) ==
    IF e = 1 THEN a
    ELSE IF e % 2 = 0 THEN LET h == MatPow(a, e \div 2) IN MatMul(h, h)
    ELSE MatMul(a, MatPow(a, e - 1))

\* a: a first row of ones, then row i has its one in column i - 1 (0-based).
CompanionA(k) ==
    [i \in 1..k |-> [j \in 1..k |-> IF i = 1 \/ i - 2 = j - 1 THEN 1 ELSE 0] \o <<>>] \o <<>>

\* A faulty variant of CompanionB: the seed is not reversed.
CompanionBForward(seed) == [i \in 1..Len(seed) |-> <<seed[i]>>] \o <<>>

\* b: the seed reversed (start[::-1]), as a column.
CompanionB(seed) == [i \in 1..Len(seed) |-> <<seed[Len(seed) + 1 - i]>>] \o <<>>

\* The sign c of the two parity identities.
FibSign(n) == IF n % 2 = 0 THEN -1 ELSE 1
LucasSign(n) == IF n % 2 = 1 THEN -1 ELSE 1

RECURSIVE nth_fibonacci(_, _)
nth_fibonacci(n, seed) ==
    IF 0 <= n /\ n < Len(seed) THEN seed[n + 1]
    ELSE IF n > 0
    THEN LET adjust == Len(seed) - 1
         IN  MatMul(MatPow(CompanionA(Len(seed)), n - adjust), CompanionB(seed))[1][1]
    ELSE IF seed = <<0, 1>> THEN FibSign(n) * nth_fibonacci(Abs(n), seed)
    ELSE IF seed = <<2, 1>> THEN LucasSign(n) * nth_fibonacci(Abs(n), seed)
    ELSE NegaAt(StreamInit(seed), seed, Abs(n))

SeedValues == (0 - 1)..2
Seeds == UNION {[1..k -> SeedValues] : k \in 1..MaxSeedLen}

\* A seed is chosen and both streams are created; fpos and npos count the
\* pulls made, fval and nval hold the value last yielded.
InitFib ==
    /\ seedv \in Seeds
    /\ fgen = StreamInit(seedv) /\ fpos = 0 /\ fval = 0
    /\ ngen = StreamInit(seedv) /\ npos = 0 /\ nval = 0
    /\ gen = GenInit /\ out = <<>>
    /\ primes = GenInit /\ next_prime = 0 /\ cnt = 0 /\ cout = <<>>
    /\ tn = 0 /\ prime_ret = "none" /\ comp_ret = "none"
    /\ mr_pc = "idle" /\ mr_n = 0 /\ mr_k = 0 /\ mr_r = 0 /\ mr_d = 0 /\ mr_i = 0 /\ mr_ret = "none"
    /\ fn = "none" /\ mn = 0 /\ mP = 0 /\ mQ = 0 /\ mstart = <<>> /\ mpc = "idle" /\ mgen = <<>> /\ mval = 0 /\ mret = "none"

\* A pull of fibonacci_stream(seedv).
FibPull ==
    /\ fpos <= MaxIndex
    /\ fgen' = FibNext(fgen, seedv).gen
    /\ fval' = FibNext(fgen, seedv).value
    /\ fpos' = fpos + 1
    /\ UNCHANGED <<seedv, ngen, npos, nval>>
    /\ UNCHANGED <<primeVars, compVars, trialVars, mrVars, memberVars>>

\* A pull of negafibonacci_stream(seedv).
NegaPull ==
    /\ npos <= MaxNegIndex
    /\ ngen' = NegaNext(ngen, seedv).gen
    /\ nval' = NegaNext(ngen, seedv).value
    /\ npos' = npos + 1
    /\ UNCHANGED <<seedv, fgen, fpos, fval>>
    /\ UNCHANGED <<primeVars, compVars, trialVars, mrVars, memberVars>>

(***************************************************************************)
(* lucas_stream, is_fibonacci, is_lucas                                    *)
(***************************************************************************)
\* lucas_stream(P, Q, seed): i counts the seed values yielded; n1, n2 are the
\* loop's pair (n1, n2 = start).
LucasInit(seed) == [i |-> 0, n1 |-> seed[1], n2 |-> seed[2]]

LucasNext(g, P, Q, seed) ==
    IF g.i < Len(seed)
    THEN [gen |-> [g EXCEPT !.i = g.i + 1], value |-> seed[g.i + 1]]
    ELSE LET next_n == P * g.n2 - Q * g.n1
         IN  [gen |-> [g EXCEPT !.n1 = g.n2, !.n2 = next_n], value |-> next_n]

Max(s) == CHOOSE x \in Range(s) : \A y \in Range(s) : y <= x
Isqrt(x) == CHOOSE r \in 0..x : r * r <= x /\ x < (r + 1) * (r + 1)

\* n <= nth_fibonacci(1475).  F(1475) has 308 digits and the model's integers
\* have 32 bits, so the model compares with F(FibIndexInRange) instead: the
\* terms do not decrease, and every n of the model is below F(FibIndexInRange),
\* so both comparisons hold for every n the model calls is_fibonacci with.
BelowFibLimit(n) == n <= nth_fibonacci(FibIndexInRange, <<0, 1>>)

\* phi = 0.5 + 0.5 * math.sqrt(5.0); a = phi * n;
\* abs(round(a) - a) < 1.0 / n, for n >= 1.  In the model's range the doubles
\* decide these comparisons as the reals do, and the reals are compared here
\* through integers: with m = round(phi * n) and q = 2m - n,
\* |m - phi n| < 1/n  iff  q n - 2 < n^2 sqrt(5) < q n + 2.
NearGolden(n) ==
    LET floor == (n + Isqrt(5 * n * n)) \div 2
        m == IF 5 * n * n < (2 * floor + 1 - n) * (2 * floor + 1 - n)
             THEN floor ELSE floor + 1
        q == 2 * m - n
    IN  /\ q * n - 2 < 0 \/ (q * n - 2) * (q * n - 2) < 5 * n * n * n * n
        /\ 5 * n * n * n * n < (q * n + 2) * (q * n + 2)

MemberInputs == (0 - 2)..MaxMemberN
FibMemberSeeds == {<<0, 1>>, <<2, 1>>, <<0, 0, 1>>, <<3>>, <<0 - 1, 1>>, <<0, 0>>}
LucasCoefficients == {0, 1, 2} \X {0 - 1, 0, 1}
LucasMemberSeeds == {<<0, 1>>, <<0, 0>>, <<1, 1>>}

\* A call of is_fibonacci(n, seed) at its entry, or a call of
\* is_lucas(n, P, Q, seed) at the head of its loop with a fresh lucas_stream.
InitMember ==
    /\ \/ /\ fn = "is_fibonacci"
          /\ mstart \in FibMemberSeeds
          /\ mP = 0 /\ mQ = 0
          /\ mpc = "call"
          /\ mgen = StreamInit(mstart)
       \/ /\ fn = "is_lucas"
          /\ mstart \in LucasMemberSeeds
          /\ \E pq \in LucasCoefficients : mP = pq[1] /\ mQ = pq[2]
          /\ mpc = "pull"
          /\ mgen = LucasInit(mstart)
    /\ mn \in MemberInputs
    /\ mval = 0
    /\ mret = "none"
    /\ gen = GenInit /\ out = <<>>
    /\ primes = GenInit /\ next_prime = 0 /\ cnt = 0 /\ cout = <<>>
    /\ tn = 0 /\ prime_ret = "none" /\ comp_ret = "none"
    /\ mr_pc = "idle" /\ mr_n = 0 /\ mr_k = 0 /\ mr_r = 0 /\ mr_d = 0 /\ mr_i = 0 /\ mr_ret = "none"
    /\ seedv = <<>> /\ fgen = <<>> /\ fpos = 0 /\ fval = 0 /\ ngen = <<>> /\ npos = 0 /\ nval = 0

\* The entry of is_fibonacci: the three tests before the loop.
IsFibonacciCall ==
    /\ fn = "is_fibonacci" /\ mpc = "call"
    /\ IF mn \in Range(mstart)
       THEN mret' = "true" /\ mpc' = "done"
       ELSE IF mn < Max(mstart)
       THEN mret' = "false" /\ mpc' = "done"
       ELSE IF BelowFibLimit(mn) /\ mstart = <<0, 1>>
       THEN mret' = Ret(mn = 0 \/ NearGolden(mn)) /\ mpc' = "done"
       ELSE mret' = mret /\ mpc' = "pull"
    /\ UNCHANGED <<fn, mn, mP, mQ, mstart, mgen, mval>>
    /\ UNCHANGED <<primeVars, compVars, trialVars, mrVars, fibVars>>

\* "for fib in fibonacci_stream(start=start)": the loop takes the stream's
\* next value.
FibonacciPull ==
    /\ fn = "is_fibonacci" /\ mpc = "pull"
    /\ mgen' = FibNext(mgen, mstart).gen
    /\ mval' = FibNext(mgen, mstart).value
    /\ mpc' = "test"
    /\ UNCHANGED <<fn, mn, mP, mQ, mstart, mret>>
    /\ UNCHANGED <<primeVars, compVars, trialVars, mrVars, fibVars>>

\* "for lucas in lucas_stream(P = P, Q = Q, start = start)": the loop takes the
\* stream's next value.
LucasPull ==
    /\ fn = "is_lucas" /\ mpc = "pull"
    /\ mgen' = LucasNext(mgen, mP, mQ, mstart).gen
    /\ mval' = LucasNext(mgen, mP, mQ, mstart).value
    /\ mpc' = "test"
    /\ UNCHANGED <<fn, mn, mP, mQ, mstart, mret>>
    /\ UNCHANGED <<primeVars, compVars, trialVars, mrVars, fibVars>>

\* The body of either loop: if n == value: return True; if value > n: return
\* False; otherwise back to the head of the loop.
LoopTest ==
    /\ mpc = "test"
    /\ IF mn = mval THEN mret' = "true" /\ mpc' = "done"
       ELSE IF mval > mn THEN mret' = "false" /\ mpc' = "done"
       ELSE mret' = mret /\ mpc' = "pull"
    /\ UNCHANGED <<fn, mn, mP, mQ, mstart, mgen, mval>>
    /\ UNCHANGED <<primeVars, compVars, trialVars, mrVars, fibVars>>

IsFibonacciTest == fn = "is_fibonacci" /\ LoopTest
IsLucasTest == fn = "is_lucas" /\ LoopTest

(***************************************************************************)
(* Specifications.  Each follows one part of the library; its initial      *)
(* condition leaves the variables of the other parts at idle values.       *)
(***************************************************************************)
NextPrime == YieldWheelPrime \/ CandidateStep
SpecPrime == InitPrime /\ [][NextPrime]_vars

NextComposite == CompositeStep
SpecComposite == InitComposite /\ [][NextComposite]_vars

NextTrial == CallIsPrime \/ CallIsComposite
SpecTrial == InitTrial /\ [][NextTrial]_vars

NextMR == MRCall \/ MRRound \/ MRReturn
SpecMR == InitMR /\ [][NextMR]_vars

NextFib == FibPull \/ NegaPull
SpecFib == InitFib /\ [][NextFib]_vars

NextMember ==
    \/ IsFibonacciCall \/ FibonacciPull \/ IsFibonacciTest
    \/ LucasPull \/ IsLucasTest
SpecMember == InitMember /\ [][NextMember]_vars
\* The interpreter keeps running a loop that has not returned.
FairMember == SpecMember /\ WF_vars(NextMember)

(***************************************************************************)
(* Properties of prime_stream.                                             *)
(***************************************************************************)
StrictlyIncreasing(s) == \A i \in 1..(Len(s) - 1) : s[i] < s[i + 1]
Last(s) == s[Len(s)]

\* C1: prime_stream yields a strictly increasing sequence holding exactly the
\* primes: every value yielded is prime, no prime below the last value yielded
\* is missing, and the sequence starts 2, 3, 5, 7, 11, 13.
PrimeStreamExact ==
    /\ StrictlyIncreasing(out)
    /\ out # <<>> => Range(out) = {p \in PrimeNumbers : p <= Last(out)}
    /\ \A i \in 1..Len(out) : i <= 6 => out[i] = <<2, 3, 5, 7, 11, 13>>[i]

\* The stream has run past a whole wheel period and past the composite 2899 =
\* 13 * 223 that follows the contested key 2873.
PrimeStreamWitness ==
    /\ Len(out) >= 6 /\ out[6] = 13
    /\ gen.n > 2899
    /\ 2897 \in Range(out) /\ 2899 \notin Range(out)

\* The primes the sieve loop has found (the wheel primes 2..11 are yielded
\* unconditionally before the sieve exists and never enter it).
Discovered == {p \in Range(out) : p >= start}
EntriesOf(p) == {k \in DOMAIN gen.sieve : gen.sieve[k] = p}

\* C9: between two candidate steps every prime found by the sieve loop has
\* exactly one entry in the sieve; its key is a multiple of the prime, at least
\* its square, larger than the last candidate examined, with a residue modulo
\* the wheel product in the coprime set; no entry belongs to anything else (so a
\* reinsertion never overwrote another prime's entry).
SieveInvariant ==
    /\ \A p \in Discovered :
          /\ Cardinality(EntriesOf(p)) = 1
          /\ \A k \in EntriesOf(p) :
                /\ k % p = 0
                /\ k >= p * p
                /\ k > gen.n
                /\ k % c \in mod
    /\ \A k \in DOMAIN gen.sieve : gen.sieve[k] \in Discovered
    /\ Cardinality(DOMAIN gen.sieve) = Cardinality(Discovered)

\* 17 has just been reinserted from 2839: its next odd multiple 2873 already
\* belongs to 13, the one after (2907) is a multiple of 3, so it lands on 2941.
SieveWitness ==
    /\ gen.n = 2839
    /\ 2873 \in DOMAIN gen.sieve /\ gen.sieve[2873] = 13
    /\ 2941 \in DOMAIN gen.sieve /\ gen.sieve[2941] = 17

(***************************************************************************)
(* Properties of composite_stream.                                         *)
(***************************************************************************)
\* C4 (as stated): composite_stream yields, strictly increasing, exactly the
\* composite numbers; its first five values are 4, 6, 8, 9, 10.
CompositeStreamAsClaimed ==
    /\ StrictlyIncreasing(cout)
    /\ Range(cout) = {x \in CompositeNumbers : x <= cnt}
    /\ \A i \in 1..Len(cout) : i <= 5 => cout[i] = <<4, 6, 8, 9, 10>>[i]

\* C4 (amended): composite_stream yields 1 first and then, strictly increasing,
\* exactly the composite numbers; its first five values are 1, 4, 6, 8, 9.
CompositeStreamExact ==
    /\ StrictlyIncreasing(cout)
    /\ Range(cout) = {x \in {1} \cup CompositeNumbers : x <= cnt}
    /\ \A i \in 1..Len(cout) : i <= 5 => cout[i] = <<1, 4, 6, 8, 9>>[i]

\* The counter has passed 169 = 13 * 13, the first composite only the sieve
\* map (not the wheel) tells from a prime.
CompositeStreamWitness ==
    /\ cnt >= 170
    /\ 169 \in Range(cout) /\ 167 \notin Range(cout)
    /\ Len(cout) >= 5

(***************************************************************************)
(* Properties of the primality tests.                                      *)
(***************************************************************************)
\* C2: is_prime(n) is exact: it returns true if and only if n is prime (false
\* for every n < 2, true for 2, and for n >= 3 neither a prime reported
\* composite nor a composite reported prime).
IsPrimeExact ==
    prime_ret # "none" => (prime_ret = "true" <=> tn \in PrimeNumbers)

\* is_prime has answered true for a prime above 13 * 13 (trial division went
\* through the wheel primes and into the sieve loop's primes 13 and 17).
IsPrimeWitness ==
    /\ tn = 173 /\ prime_ret = "true"

\* C3 (as stated): for every n >= 1 exactly one of is_prime(n), is_composite(n),
\* n = 1 holds.
ExactlyOne(a, b, d) == (a /\ ~b /\ ~d) \/ (~a /\ b /\ ~d) \/ (~a /\ ~b /\ d)
TrichotomyAsClaimed ==
    (tn >= 1 /\ prime_ret # "none" /\ comp_ret # "none")
        => ExactlyOne(prime_ret = "true", comp_ret = "true", tn = 1)

\* C3 (amended): for every n >= 2 exactly one of is_prime(n), is_composite(n)
\* holds; for n = 1, is_composite(1) is true and is_prime(1) is false.
Trichotomy ==
    (tn >= 1 /\ prime_ret # "none" /\ comp_ret # "none")
        => /\ tn >= 2 => (prime_ret = "true") # (comp_ret = "true")
           /\ tn = 1 => prime_ret = "false" /\ comp_ret = "true"

\* Both tests have answered for 2 (the special case of is_composite).
TrichotomyWitness ==
    /\ tn = 2 /\ prime_ret = "true" /\ comp_ret = "false"

\* C5: miller_rabin returns false only for composites: for a prime n, whatever
\* the number of rounds and whatever bases are drawn, it never returns false,
\* and when it returns it returns true.
MillerRabinAcceptsPrimes ==
    mr_n \in PrimeNumbers
        => /\ mr_ret # "false"
           /\ mr_pc = "done" => mr_ret = "true"

\* Three rounds have passed for the prime 37 and the call has returned true.
MillerRabinWitness ==
    /\ mr_n = 37 /\ mr_k = 3 /\ mr_i = 3 /\ mr_pc = "done" /\ mr_ret = "true"

(***************************************************************************)
(* Properties of the recurrence index.                                     *)
(***************************************************************************)
\* C6: the index and the stream agree: the value fibonacci_stream(seed) yields
\* at position n (from 0) is nth_fibonacci(n, seed), for n below the seed
\* length (the seed short-circuit) and from it on (the matrix power).
IndexMatchesStream ==
    fpos > 0 => fval = nth_fibonacci(fpos - 1, seedv)

\* The Tribonacci stream has yielded its term of index 10, which is 81.
IndexMatchesStreamWitness ==
    /\ seedv = <<0, 0, 1>> /\ fpos = 11 /\ fval = 81

\* C8: negative indices extend the recurrence backward: with F(i) =
\* nth_fibonacci(i, seed), k the seed length and n >= 1 the position the
\* backward stream has reached, F(-n + k) = F(-n) + ... + F(-n + k - 1), and
\* F(-n) is the value the backward stream yielded at position n.
BackwardRecurrence ==
    npos > 1 =>
        LET n == npos - 1
            k == Len(seedv)
        IN  /\ nth_fibonacci(k - n, seedv)
                 = Sum([i \in 1..k |-> nth_fibonacci(i - 1 - n, seedv)])
            /\ nth_fibonacci(0 - n, seedv) = nval

\* A seed of length 3 on the fallback path: the backward stream has yielded
\* F(-5), a nonzero value.
BackwardRecurrenceWitness ==
    /\ seedv = <<1, 0, 2>> /\ npos = 6 /\ nval = nth_fibonacci(0 - 5, seedv)
    /\ nval # 0

(***************************************************************************)
(* Properties of the membership predicates.                                *)
(***************************************************************************)
\* The value fibonacci_stream(seed) yields at position idx (from 0).
RECURSIVE FibAt(_, _, _)
FibAt(g, seed, idx) ==
    LET r == FibNext(g, seed)
    IN  IF idx = 0 THEN r.value ELSE FibAt(r.gen, seed, idx - 1)

InFibonacciStream(n, seed) ==
    \E idx \in 0..MaxScan : FibAt(StreamInit(seed), seed, idx) = n

\* C7: for every n >= 0 and every integer seed, is_fibonacci(n, seed) returns
\* true if and only if n is one of the values fibonacci_stream(seed) yields.
IsFibonacciExact ==
    (fn = "is_fibonacci" /\ mn >= 0 /\ mpc = "done")
        => (mret = "true" <=> InFibonacciStream(mn, mstart))

\* C10: is_fibonacci and is_lucas always terminate with a boolean, whatever
\* the integers n, P, Q and the seed.
MembershipTerminates == <>(mpc = "done" /\ mret \in {"true", "false"})

=============================================================================
